---- MODULE Spec2Model ----
(***************************************************************************)
(* A model of src/app.py: a Flask application over one SQLAlchemy table,   *)
(* Post.  The state is the table, the database's id generator, the clock   *)
(* datetime.utcnow reads, the request-scoped sessions of the requests in   *)
(* flight, and the request taken up last together with its response.       *)
(*                                                                         *)
(* Text (a title, a search string) is a sequence of one-character strings: *)
(* <<>> is '' and <<"a","b">> is 'ab'.  A submitted form or query string   *)
(* is a function from the keys that were sent to their values.             *)
(***************************************************************************)
EXTENDS Integers, Sequences, FiniteSets, TLC

VARIABLES backend,   \* which database the URI selects (app.py 13-28)
          posts,     \* the post table: id -> row
          seq,       \* last value of PostgreSQL's id sequence
          now,       \* the last reading of datetime.utcnow
          sess,      \* request slot -> its db.session (the loaded Post)
          last       \* the request taken up last and its response (pending
                     \* until its handler returns)

vars == <<backend, posts, seq, now, sess, last>>

\* ---------------------------------------------------------------- bounds
MaxId == 2          \* ids handed out in Spec
MaxTime == 2        \* clock readings in Spec
ConcMaxPosts == 2   \* posts created in SpecConc
ConcMaxTime == 1    \* clock readings in SpecConc
SearchLen == 2      \* length of titles and search strings in SpecSearch
SearchMaxPosts == 1 \* posts created in SpecSearch
PageMaxPosts == 25  \* posts created in SpecPage

\* ------------------------------------------------------- program constants
per_page == 10

Keys == {"title", "content", "author"}

Min(a, b) == IF a < b THEN a ELSE b
Max(a, b) == IF a > b THEN a ELSE b
MaxOf(S) == CHOOSE x \in S : \A y \in S : y <= x

\* ------------------------------------------------------------ the table
\* class Post: the five non-key columns of a row (the key is the index)
Row(t, c, a, cr, up) ==
    [title |-> t, content |-> c, author |-> a, created_at |-> cr, updated_at |-> up]

NoRow == Row(<<>>, <<>>, <<>>, 0, 0)
EmptyTable == [i \in {} |-> NoRow]
NoForm == [k \in {} |-> <<>>]

\* db.session of a request that holds no Post
Idle == [pc |-> "idle", op |-> "none", id |-> 0, orig |-> NoRow, obj |-> NoRow]

\* the primary key an INSERT gets: SQLite's rowid is max(rowid)+1, PostgreSQL's
\* SERIAL column draws nextval of its sequence
NewId ==
    IF backend = "sqlite"
    THEN (IF DOMAIN posts = {} THEN 1 ELSE MaxOf(DOMAIN posts) + 1)
    ELSE seq + 1

\* the response of a handler; fields a handler does not produce keep their
\* empty value
Resp(op, id, status, body) ==
    [op |-> op, id |-> id, status |-> status, body |-> body, form |-> NoForm,
     row |-> NoRow, q |-> <<>>, page |-> 1, items |-> <<>>, ordered |-> <<>>]

\* db.get_or_404(Post, post_id)
Found(id) == id \in DOMAIN posts

\* ------------------------------------------------------- the LIKE operator
\* Two characters compared by LIKE: SQLite's LIKE ignores the case of ASCII
\* letters, PostgreSQL's does not.
Lower(ch) == IF ch = "A" THEN "a" ELSE ch

CharEq(be, x, y) == IF be = "sqlite" THEN Lower(x) = Lower(y) ELSE x = y

\* s LIKE pat. '%' matches any run of characters and '_' any one character;
\* no ESCAPE clause is sent, so PostgreSQL takes a backslash as the escape
\* character (the next pattern character is literal) and SQLite has none.
RECURSIVE LikeMatch(_, _, _)
LikeMatch(be, pat, s) ==
    IF pat = <<>> THEN s = <<>>
    ELSE IF Head(pat) = "%"
    THEN LikeMatch(be, Tail(pat), s) \/ (s /= <<>> /\ LikeMatch(be, pat, Tail(s)))
    ELSE IF Head(pat) = "_"
    THEN s /= <<>> /\ LikeMatch(be, Tail(pat), Tail(s))
    ELSE IF Head(pat) = "\\" /\ be = "postgresql" /\ Len(pat) > 1
    THEN s /= <<>> /\ Head(s) = pat[2] /\ LikeMatch(be, Tail(Tail(pat)), Tail(s))
    ELSE s /= <<>> /\ CharEq(be, Head(pat), Head(s)) /\ LikeMatch(be, Tail(pat), Tail(s))

\* Post.title.like(f'%{search_query}%') | Post.content.like(f'%{search_query}%')
Filter(be, search_query, row) ==
    \/ LikeMatch(be, <<"%">> \o search_query \o <<"%">>, row.title)
    \/ LikeMatch(be, <<"%">> \o search_query \o <<"%">>, row.content)

\* the ids the query of index() selects
Matching(search_query) ==
    IF search_query /= <<>>
    THEN {i \in DOMAIN posts : Filter(backend, search_query, posts[i])}
    ELSE DOMAIN posts

\* ------------------------------------------------------------- ORDER BY
RECURSIVE Perms(_)
Perms(S) ==
    IF S = {} THEN {<<>>}
    ELSE UNION {{<<x>> \o p : p \in Perms(S \ {x})} : x \in S}

\* The sequences ORDER BY created_at DESC may return for the rows S: the key
\* is the only one, so rows with equal created_at come in any order.
RECURSIVE OrderByCreatedDesc(_)
OrderByCreatedDesc(S) ==
    IF S = {} THEN {<<>>}
    ELSE LET newest == {i \in S : \A j \in S : posts[j].created_at <= posts[i].created_at}
         IN  {p \o rest : p \in Perms(newest), rest \in OrderByCreatedDesc(S \ newest)}

\* ------------------------------------------------------------- paginate
RECURSIVE Offset(_, _)
Offset(s, n) == IF n <= 0 \/ s = <<>> THEN s ELSE Offset(Tail(s), n - 1)

RECURSIVE Limit(_, _)
Limit(s, n) == IF n <= 0 \/ s = <<>> THEN <<>> ELSE <<Head(s)>> \o Limit(Tail(s), n - 1)

\* a paginate whose first page starts after the first per_page rows
PaginateFromNext(rows, page, size) ==
    LET p == IF page < 1 THEN 1 ELSE page
    IN  Limit(Offset(rows, p * size), size)

\* query.paginate(page=page, per_page=per_page, error_out=False): a page
\* below 1 is read as 1, and no page is an error
Paginate(rows, page, size) ==
    LET p == IF page < 1 THEN 1 ELSE page
    IN  Limit(Offset(rows, (p - 1) * size), size)

\* request.args.get(key, default)
ArgGet(args, key, default) == IF key \in DOMAIN args THEN args[key] ELSE default

\* the query string of GET /: each of the two parameters sent or not
Args(hasq, q, hasp, p) ==
    [k \in (IF hasq THEN {"search_query"} ELSE {}) \cup (IF hasp THEN {"page"} ELSE {})
        |-> IF k = "search_query" THEN q ELSE p]

\* ------------------------------------------------------------ the handlers
\* GET /: index().  ord is the order the database returns the selected rows in.
Index(args, ord) ==
    LET search_query == ArgGet(args, "search_query", <<>>)
        page == ArgGet(args, "page", 1)
    IN  /\ ord \in OrderByCreatedDesc(Matching(search_query))
        /\ last' = [Resp("index", 0, 200, "html") EXCEPT
                      !.q = search_query, !.page = page, !.ordered = ord,
                      !.items = Paginate(ord, page, per_page)]
        /\ UNCHANGED <<backend, posts, seq, now, sess>>

\* GET /post/<id>: post_detail()
Detail(id) ==
    /\ last' = IF Found(id)
               THEN [Resp("detail", id, 200, "html") EXCEPT !.row = posts[id]]
               ELSE Resp("detail", id, 404, "notfound")
    /\ UNCHANGED <<backend, posts, seq, now, sess>>

\* GET /write: the empty form
WriteGet ==
    /\ last' = Resp("write_get", 0, 200, "html")
    /\ UNCHANGED <<backend, posts, seq, now, sess>>

\* The row INSERTed for Post(title=, content=, author=): created_at and
\* updated_at each call their own default, datetime.utcnow, at the flush, in
\* column order; t1 and t2 are the two readings.
InsertRow(form, t1, t2) == Row(form["title"], form["content"], form["author"], t1, t2)

\* a commit whose failure leaves the transaction's writes in the table
CommittedAnyway(ok, written) == written

\* The table a commit leaves: the transaction's writes when it succeeds, the
\* table as it was when it raises (the session is rolled back and removed when
\* the request's context ends).
Committed(ok, written) == IF ok THEN written ELSE posts

\* POST /write: write().  request.form[key] of a key that was not sent raises
\* BadRequestKeyError (a 400 response) before any Post is made; otherwise the
\* Post is added and committed.  ok: the commit succeeds; drew: a failing
\* INSERT had already drawn its id from the sequence.
Write(form, t1, t2, ok, drew) ==
    IF ~ (Keys \subseteq DOMAIN form)
    THEN /\ last' = Resp("write", 0, 400, "badrequest")
         /\ UNCHANGED <<backend, posts, seq, now, sess>>
    ELSE /\ posts' = Committed(ok, [i \in DOMAIN posts \cup {NewId} |->
                                      IF i = NewId THEN InsertRow(form, t1, t2) ELSE posts[i]])
         /\ seq' = IF backend = "postgresql" /\ (ok \/ drew) THEN seq + 1 ELSE seq
         /\ now' = t2
         /\ last' = IF ok
                    THEN [Resp("write", NewId, 302, "redirect_index") EXCEPT !.form = form]
                    ELSE [Resp("write", 0, 200, "error_text") EXCEPT !.form = form]
         /\ UNCHANGED <<backend, sess>>

\* GET /edit/<id>: the form filled with the Post
EditGet(id) ==
    /\ last' = IF Found(id)
               THEN [Resp("edit_get", id, 200, "html") EXCEPT !.row = posts[id]]
               ELSE Resp("edit_get", id, 404, "notfound")
    /\ UNCHANGED <<backend, posts, seq, now, sess>>

\* post.title = ...; post.content = ...; post.author = ... on the loaded Post
Assign(row, form) ==
    [row EXCEPT !.title = form["title"], !.content = form["content"],
                !.author = form["author"]]

\* POST /edit/<id>, up to the commit: get_or_404 loads the Post into the
\* request's session and the three form fields are assigned to it (in memory).
EditLoad(r, id, form) ==
    /\ sess[r].pc = "idle"
    /\ IF ~ Found(id)
       THEN /\ last' = Resp("edit", id, 404, "notfound")
            /\ UNCHANGED sess
       ELSE IF ~ (Keys \subseteq DOMAIN form)
       THEN /\ last' = Resp("edit", id, 400, "badrequest")
            /\ UNCHANGED sess
       ELSE /\ sess' = [sess EXCEPT ![r] = [pc |-> "loaded", op |-> "edit", id |-> id,
                                           orig |-> posts[id],
                                           obj |-> Assign(posts[id], form)]]
            /\ last' = Resp("edit", id, 0, "pending")
    /\ UNCHANGED <<backend, posts, seq, now>>

\* The columns of the loaded Post the unit of work finds changed: an attribute
\* set to the value it was loaded with has no net change.
Dirty(s) == {k \in Keys : s.obj[k] /= s.orig[k]}

\* an UPDATE that stamps both timestamps
UpdateRowStampsBoth(row, s, t) ==
    [k \in DOMAIN row |->
        IF k \in Dirty(s) THEN s.obj[k]
        ELSE IF k \in {"updated_at", "created_at"} THEN t
        ELSE row[k]]

\* UPDATE post SET <the changed columns>, updated_at = <onupdate: utcnow()>
\* WHERE id = :id, applied to the row as it is in the table now
UpdateRow(row, s, t) ==
    [k \in DOMAIN row |->
        IF k \in Dirty(s) THEN s.obj[k]
        ELSE IF k = "updated_at" THEN t
        ELSE row[k]]

\* POST /edit/<id>, db.session.commit() and the response.  With no changed
\* column no UPDATE is emitted (and onupdate does not run); an UPDATE that
\* matches no row raises StaleDataError.
EditCommit(r, t, ok) ==
    LET s == sess[r]
        flushes == Dirty(s) /= {}
        done == ok /\ (flushes => Found(s.id))
    IN  /\ s.pc = "loaded" /\ s.op = "edit"
        /\ posts' = IF flushes /\ Found(s.id)
                    THEN Committed(ok, [posts EXCEPT ![s.id] = UpdateRow(@, s, t)])
                    ELSE posts
        /\ now' = IF flushes THEN t ELSE now
        /\ last' = IF done THEN Resp("edit", s.id, 302, "redirect_detail")
                   ELSE Resp("edit", s.id, 200, "error_text")
        /\ sess' = [sess EXCEPT ![r] = Idle]
        /\ UNCHANGED <<backend, seq>>

\* POST /delete/<id>, up to the commit: get_or_404 loads the Post
DeleteLoad(r, id) ==
    /\ sess[r].pc = "idle"
    /\ IF ~ Found(id)
       THEN /\ last' = Resp("delete", id, 404, "notfound")
            /\ UNCHANGED sess
       ELSE /\ sess' = [sess EXCEPT ![r] = [pc |-> "loaded", op |-> "delete", id |-> id,
                                           orig |-> posts[id], obj |-> posts[id]]]
            /\ last' = Resp("delete", id, 0, "pending")
    /\ UNCHANGED <<backend, posts, seq, now>>

\* a delete that leaves the row in place
DeleteRowKeeps(id) == posts

\* DELETE FROM post WHERE id = :id
DeleteRow(id) == [i \in DOMAIN posts \ {id} |-> posts[i]]

\* POST /delete/<id>, db.session.delete(post); db.session.commit() and the
\* response (a DELETE that matches no row only warns)
DeleteCommit(r, ok) ==
    LET s == sess[r]
    IN  /\ s.pc = "loaded" /\ s.op = "delete"
        /\ posts' = Committed(ok, DeleteRow(s.id))
        /\ last' = IF ok THEN Resp("delete", s.id, 302, "redirect_index")
                   ELSE Resp("delete", s.id, 200, "error_text")
        /\ sess' = [sess EXCEPT ![r] = Idle]
        /\ UNCHANGED <<backend, seq, now>>

\* ------------------------------------------------------------ the inputs
\* the readings datetime.utcnow may give next, up to the bound
Clock(bound) == now .. Min(now + 1, bound)

\* every form over the values V: each key sent or not
Forms(V) == UNION {[D -> V] : D \in SUBSET Keys}

\* ------------------------------------------- Spec: the life of the posts
\* One request at a time; the fields are '' or 'a'.
Slots == {1}
Vals == {<<>>, <<"a">>}
Ids == 1 .. MaxId

Init ==
    /\ backend \in {"sqlite", "postgresql"}
    /\ posts = EmptyTable
    /\ seq = 0
    /\ now = 0
    /\ sess = [r \in Slots |-> Idle]
    /\ last = Resp("none", 0, 0, "none")

\* no request is between its load and its commit
Quiet == \A r \in DOMAIN sess : sess[r].pc = "idle"

Next ==
    \/ /\ Quiet
       /\ \E ord \in OrderByCreatedDesc(DOMAIN posts) : Index(Args(FALSE, <<>>, FALSE, 1), ord)
    \/ Quiet /\ \E id \in Ids : Detail(id)
    \/ Quiet /\ WriteGet
    \/ /\ Quiet
       /\ NewId <= MaxId
       /\ \E form \in Forms(Vals), t1 \in Clock(MaxTime), ok, drew \in BOOLEAN :
            \E t2 \in t1 .. Min(t1 + 1, MaxTime) : Write(form, t1, t2, ok, drew)
    \/ Quiet /\ \E id \in Ids : EditGet(id)
    \/ \E r \in Slots, id \in Ids, form \in Forms(Vals) : EditLoad(r, id, form)
    \/ \E r \in Slots, t \in Clock(MaxTime), ok \in BOOLEAN : EditCommit(r, t, ok)
    \/ \E r \in Slots, id \in Ids : DeleteLoad(r, id)
    \/ \E r \in Slots, ok \in BOOLEAN : DeleteCommit(r, ok)

Spec == Init /\ [][Next]_vars

\* ---------------------------------------- SpecSearch: the search filter
\* Posts whose title and content are drawn from an alphabet with both cases
\* of a letter, LIKE's two wildcards and the backslash; every search string.
Alphabet == {"a", "A", "_", "%", "\\"}
Texts(n) == UNION {[1 .. k -> Alphabet] : k \in 0 .. n}

SearchForms ==
    {[k \in Keys |-> IF k = "title" THEN t ELSE IF k = "content" THEN c ELSE <<"a">>] :
        t \in Texts(SearchLen), c \in Texts(1)}

NextSearch ==
    \/ /\ NewId <= SearchMaxPosts
       /\ \E form \in SearchForms, ok \in BOOLEAN : Write(form, now, now, ok, FALSE)
    \/ \E q \in Texts(SearchLen) :
          \E ord \in OrderByCreatedDesc(Matching(q)) : Index(Args(TRUE, q, FALSE, 1), ord)
    \/ \E ord \in OrderByCreatedDesc(DOMAIN posts) : Index(Args(FALSE, <<>>, FALSE, 1), ord)

SpecSearch == Init /\ [][NextSearch]_vars

\* ------------------------------------------------ SpecPage: the pages
\* Posts created one after another, each at a later clock reading, and every
\* page of the list from 0 to one past the last.
PageForm == [k \in Keys |-> <<"a">>]
Pages == 0 .. (PageMaxPosts \div per_page) + 2

NextPage ==
    \/ /\ NewId <= PageMaxPosts
       /\ Write(PageForm, now + 1, now + 1, TRUE, FALSE)
    \/ \E q \in {<<>>, <<"a">>, <<"b">>}, page \in Pages :
          \E ord \in OrderByCreatedDesc(Matching(q)) : Index(Args(TRUE, q, TRUE, page), ord)
    \/ \E ord \in OrderByCreatedDesc(DOMAIN posts) : Index(Args(FALSE, <<>>, FALSE, 1), ord)

SpecPage == Init /\ [][NextPage]_vars

\* ------------------------------------------- SpecConc: requests interleaved
\* Two requests in flight at once: each edit or delete loads and commits in its
\* own steps, between which the other request runs.
ConcSlots == {1, 2}
ConcIds == 1 .. ConcMaxPosts
ConcForms == {f \in [Keys -> {<<"a">>, <<"b">>}] : f["author"] = <<"a">>}

InitConc ==
    /\ backend \in {"sqlite", "postgresql"}
    /\ posts = EmptyTable
    /\ seq = 0
    /\ now = 0
    /\ sess = [r \in ConcSlots |-> Idle]
    /\ last = Resp("none", 0, 0, "none")

NextConc ==
    \/ /\ NewId <= ConcMaxPosts
       /\ \E t \in Clock(ConcMaxTime) : Write(PageForm, t, t, TRUE, FALSE)
    \/ \E r \in ConcSlots, id \in ConcIds, form \in ConcForms : EditLoad(r, id, form)
    \/ \E r \in ConcSlots, t \in Clock(ConcMaxTime), ok \in BOOLEAN : EditCommit(r, t, ok)
    \/ \E r \in ConcSlots, id \in ConcIds : DeleteLoad(r, id)
    \/ \E r \in ConcSlots, ok \in BOOLEAN : DeleteCommit(r, ok)

SpecConc == InitConc /\ [][NextConc]_vars

\* ------------------------------------------------------------- the steps
\* request r's POST /edit commits and answers with the redirect
EditCommitted(r) ==
    /\ sess[r].pc = "loaded" /\ sess[r].op = "edit"
    /\ sess'[r].pc = "idle"
    /\ last'.status = 302

\* request r's POST /delete commits and answers with the redirect
DeleteCommitted(r) ==
    /\ sess[r].pc = "loaded" /\ sess[r].op = "delete"
    /\ sess'[r].pc = "idle"
    /\ last'.status = 302

\* a POST /write commits and answers with the redirect
WriteCommitted == last'.op = "write" /\ last'.status = 302 /\ posts' /= posts

\* the Posts of table tbl all have a non-empty title, content and author
AllFilled(tbl) ==
    \A i \in DOMAIN tbl :
       tbl[i].title /= <<>> /\ tbl[i].content /= <<>> /\ tbl[i].author /= <<>>

SameFields(row, obj) ==
    row.title = obj.title /\ row.content = obj.content /\ row.author = obj.author

\* ------------------------------------------------------------ the claims
\* C1: after a successful create of non-empty title, content and author, the
\* Post under the new id has exactly the submitted values, and its created_at
\* equals its updated_at.
C1_CreateThenGet ==
    [][(WriteCommitted /\ \A k \in Keys : last'.form[k] /= <<>>) =>
          /\ last'.id \in DOMAIN posts' \ DOMAIN posts
          /\ posts'[last'.id].title = last'.form["title"]
          /\ posts'[last'.id].content = last'.form["content"]
          /\ posts'[last'.id].author = last'.form["author"]
          /\ posts'[last'.id].created_at = posts'[last'.id].updated_at]_vars

\* C2: after every successful update the Post has the submitted
\* fields, and its updated_at is strictly greater than its created_at and than
\* the value it had before (stated for non-empty stored and submitted values).
C2_UpdateAdvancesUpdatedAt ==
    [][\A r \in DOMAIN sess :
          (/\ EditCommitted(r) /\ Found(sess[r].id)
           /\ AllFilled(posts)
           /\ \A k \in Keys : sess[r].obj[k] /= <<>>) =>
             LET old == posts[sess[r].id]
                 new == posts'[sess[r].id]
             IN  /\ SameFields(new, sess[r].obj)
                 /\ new.updated_at > new.created_at
                 /\ new.updated_at > old.updated_at]_vars

\* C4: the rows index() lists are in descending created_at order, rows of equal
\* created_at in descending id order (stated for tables of non-empty fields).
C4_ListOrder ==
    [][last'.op = "index" /\ AllFilled(posts') =>
          \A i, j \in 1 .. Len(last'.ordered) :
             i < j =>
                LET x == last'.ordered[i]
                    y == last'.ordered[j]
                IN  \/ posts'[x].created_at > posts'[y].created_at
                    \/ posts'[x].created_at = posts'[y].created_at /\ x > y]_vars

\* C6: every persisted Post has a non-empty title, content and author.
C6_PersistedNonEmpty == AllFilled(posts)

\* C7: a successful delete removes the Post, so that getById of its id answers
\* 404 and the list does not hold it; getById, update and delete of an id that
\* does not exist answer 404 and leave the table as it is.
C7_DeleteAndNotFound ==
    [][/\ \A r \in DOMAIN sess : DeleteCommitted(r) => ~ (sess[r].id \in DOMAIN posts')
       /\ last'.op = "detail" =>
             /\ last'.status = 404 <=> ~ (last'.id \in DOMAIN posts')
             /\ last'.status /= 404 => last'.row = posts'[last'.id]
       /\ last'.op = "index" =>
             \A k \in 1 .. Len(last'.items) : last'.items[k] \in DOMAIN posts'
       /\ (/\ last'.op \in {"detail", "edit_get", "edit", "delete"}
           /\ sess' = sess
           /\ ~ Found(last'.id)) => last'.status = 404 /\ posts' = posts]_vars

\* C7 witness: a delete has answered with its redirect, another Post remains,
\* and the id deleted is not in the table
C7_Witness ==
    /\ last.op = "delete" /\ last.status = 302
    /\ ~ Found(last.id)
    /\ posts /= EmptyTable

\* C8: a request that answers with the plain-text error leaves the table as it
\* was, and the Post it held in memory is gone with its session.
C8_FailedCommitInvisible ==
    [][last'.body = "error_text" =>
          /\ posts' = posts
          /\ \A r \in DOMAIN sess : sess'[r] = sess[r] \/ sess'[r] = Idle]_vars

\* C8 witness: an edit that assigned new field values has failed at its commit
C8_Witness ==
    /\ last.op = "edit" /\ last.body = "error_text"
    /\ Found(last.id)
    /\ Cardinality(DOMAIN posts) > 1

\* C9: an update changes nothing but the title, content, author and updated_at
\* of its own Post; the read handlers change no Post.
C9_UpdateFrame ==
    [][/\ \A r \in DOMAIN sess :
             (sess[r].pc = "loaded" /\ sess[r].op = "edit" /\ sess'[r].pc = "idle") =>
                /\ DOMAIN posts' = DOMAIN posts
                /\ \A i \in DOMAIN posts :
                      /\ posts'[i].created_at = posts[i].created_at
                      /\ i /= sess[r].id => posts'[i] = posts[i]
       /\ last'.op \in {"index", "detail", "write_get", "edit_get"} => posts' = posts]_vars

\* C9 witness: an update has answered with its redirect while a second Post
\* exists, and the updated Post's updated_at has moved past its created_at
C9_Witness ==
    /\ last.op = "edit" /\ last.status = 302
    /\ Cardinality(DOMAIN posts) = 2
    /\ Found(last.id)
    /\ posts[last.id].updated_at > posts[last.id].created_at

\* S occurs in s as a run of consecutive characters
IsSubstring(S, s) ==
    \E k \in 0 .. Len(s) - Len(S) : SubSeq(s, k + 1, k + Len(S)) = S

Listed(resp) == {resp.ordered[k] : k \in 1 .. Len(resp.ordered)}

\* C3: with a non-empty search string S the list holds a Post exactly when S
\* is a literal, case-sensitive substring of its title or of its content; with
\* an empty or absent search string it holds every Post (stated for tables of
\* non-empty fields).
C3_LiteralSubstring ==
    [][last'.op = "index" /\ AllFilled(posts') =>
          IF last'.q /= <<>>
          THEN \A i \in DOMAIN posts' :
                  i \in Listed(last') <=>
                     \/ IsSubstring(last'.q, posts'[i].title)
                     \/ IsSubstring(last'.q, posts'[i].content)
          ELSE Listed(last') = DOMAIN posts']_vars

C5_WitnessPast ==
    /\ last.op = "index" /\ last.page = 4
    /\ Len(last.ordered) = 25
    /\ last.items = <<>>

\* C10: whenever an update commits, the stored title, content and author are
\* all those its request submitted (the last writer's, never a mix).
C10_LastWriteWins ==
    [][\A r \in DOMAIN sess :
          EditCommitted(r) /\ Found(sess[r].id) =>
             SameFields(posts'[sess[r].id], sess[r].obj)]_vars

====
